---- MODULE Spec2Model ----
(***************************************************************************)
(* vscode-emacs-tab (src/src/extension.ts): the command                    *)
(* emacs-tab.reindentCurrentLine, its indent decision engine, the indent   *)
(* arithmetic and the per-language configuration cache.                    *)
(*                                                                         *)
(* Representation.                                                         *)
(*  - A string is a sequence of one-character strings; the alphabet is     *)
(*    Alphabet below.  " ", "\t" and "\r" are the members of the regular   *)
(*    expression class \s that occur in it.                                *)
(*  - An indent level (a JavaScript number, tabs + spaces / tabSize) is    *)
(*    kept as the integer level * tabSize ("units"); tab sizes are powers  *)
(*    of two, for which the floating point arithmetic of the code is exact.*)
(*  - A regular expression source of an indentation rule is a pair         *)
(*    <<kind, char>>; Test gives what RegExp.test gives for it.            *)
(***************************************************************************)
EXTENDS Integers, Sequences, FiniteSets, TLC

VARIABLES
    lines,       \* document.getText().split('\n') of the active editor
    eol,         \* document.eol: 1 = LF, 2 = CRLF
    curLine,     \* editor.selection.active.line (0-based)
    curChar,     \* editor.selection.active.character, times tabSize
    selEmpty,    \* editor.selection.isEmpty
    langId,      \* editor.document.languageId, or NoEditor
    tabSize,     \* editor.tabSize
    hardTab,     \* !editor.insertSpaces
    cache,       \* LANGUAGE_CONFIGURATION_CACHE
    message,     \* last text given to showInformationMessage
    last,        \* what the last command invocation read and did
    eng          \* one evaluation of the decision engine on chosen inputs

vars == <<lines, eol, curLine, curChar, selEmpty, langId, tabSize, hardTab,
          cache, message, last, eng>>

----------------------------------------------------------------------------
(* Strings *)

WhiteSpace == {" ", "\t", "\r"}

WordChars == {"a", "b", "c", "d", "e", "f", "h", "i", "l", "n", "o", "p",
              "r", "s", "t", "w", "x", "y"}

IsWhiteSpace(c) == c \in WhiteSpace

IsWordChar(c) == c \in WordChars

\* s.substring(i) with 1-based i
Drop(s, i) == SubSeq(s, i, Len(s))

\* /^\s*$/.test(s)
AllWhiteSpace(s) == \A i \in 1..Len(s) : IsWhiteSpace(s[i])

\* number of leading characters of s matched by /^[\s]*/
IndentLen(s) ==
    IF AllWhiteSpace(s) THEN Len(s)
    ELSE (CHOOSE i \in 1..Len(s) :
             /\ ~IsWhiteSpace(s[i])
             /\ \A j \in 1..(i - 1) : IsWhiteSpace(s[j])) - 1

\* s.replace(/^\s*/, '')
StripLeading(s) == Drop(s, IndentLen(s) + 1)

\* lit occurs in s at position i (1-based)
OccursAt(lit, s, i) ==
    /\ i >= 1
    /\ i + Len(lit) - 1 <= Len(s)
    /\ \A k \in 1..Len(lit) : s[i + k - 1] = lit[k]

\* the regular expression assertion \b between s[i-1] and s[i]
WordBoundaryBefore(s, i) ==
    LET l == i - 1 >= 1 /\ i - 1 <= Len(s) /\ IsWordChar(s[i - 1])
        r == i >= 1 /\ i <= Len(s) /\ IsWordChar(s[i])
    IN  l # r

Count(s, c) == Cardinality({i \in 1..Len(s) : s[i] = c})

Repeat(c, n) == [i \in 1..n |-> c]

----------------------------------------------------------------------------
(* BracketRule *)

\* /\B/.test(ch) for a one-character string ch
NeedsWordBoundary(ch) == IsWordChar(ch)

OpenRegExpTest(openBracket, line) ==
    \E i \in 1..(Len(line) + 1) :
        /\ OccursAt(openBracket, line, i)
        /\ (Len(openBracket) > 0 /\ NeedsWordBoundary(openBracket[1]))
               => WordBoundaryBefore(line, i)
        /\ AllWhiteSpace(Drop(line, i + Len(openBracket)))

CloseRegExpTest(closeBracket, line) ==
    LET i == IndentLen(line) + 1
        AtPos(j) ==
            /\ OccursAt(closeBracket, line, j)
            /\ (Len(closeBracket) > 0
                  /\ NeedsWordBoundary(closeBracket[Len(closeBracket)]))
                   => WordBoundaryBefore(line, j + Len(closeBracket))
    IN  \E j \in 1..i : AllWhiteSpace(SubSeq(line, 1, j - 1)) /\ AtPos(j)

----------------------------------------------------------------------------
(* IndentationRule *)

NoPattern == <<"absent", "">>

PythonKeywords ==
    { <<"d","e","f">>, <<"c","l","a","s","s">>, <<"f","o","r">>, <<"i","f">>,
      <<"e","l","i","f">>, <<"e","l","s","e">>, <<"w","h","i","l","e">>,
      <<"t","r","y">>, <<"w","i","t","h">>, <<"f","i","n","a","l","l","y">>,
      <<"e","x","c","e","p","t">>, <<"a","s","y","n","c">> }

\* IndentationRule.createRegExp: null for an empty or malformed source
Compiles(p) == p[1] \notin {"absent", "bad"}

\* RegExp.test(line) for the compiled pattern p
Test(p, line) ==
    CASE p[1] = "ends"   -> \E i \in 1..Len(line) :
                               line[i] = p[2] /\ AllWhiteSpace(Drop(line, i + 1))
      [] p[1] = "starts" -> IndentLen(line) < Len(line)
                               /\ line[IndentLen(line) + 1] = p[2]
      [] p[1] = "has"    -> \E i \in 1..Len(line) : line[i] = p[2]
      [] p[1] = "pyInc"  -> \E k \in PythonKeywords :
                               /\ OccursAt(k, line, IndentLen(line) + 1)
                               /\ \E i \in (IndentLen(line) + Len(k) + 1)..Len(line) :
                                    line[i] = ":" /\ AllWhiteSpace(Drop(line, i + 1))
      [] p[1] = "htmlInc" -> \E i \in 1..Len(line) :
                               /\ line[i] = "{"
                               /\ \A j \in (i + 1)..Len(line) :
                                    line[j] \notin {"}", "\"", "'"}
      [] OTHER -> FALSE

TestPattern(p, line) == Compiles(p) /\ Test(p, line)

testUnIndentedLinePattern(rules, line) == TestPattern(rules.unIndentedLinePattern, line)

testIncreaseIndentPattern(rules, line) == TestPattern(rules.increaseIndentPattern, line)

testDecreaseIndentPattern(rules, line) == TestPattern(rules.decreaseIndentPattern, line)

testIndentNextLinePattern(rules, line) == TestPattern(rules.indentNextLinePattern, line)

\* a match of unIndentedLinePattern sets ruleMatched
RuleState_UnIndentedMatched(rules, validPreviousLine, currentLine) ==
    LET first ==
            IF testUnIndentedLinePattern(rules, validPreviousLine)
                THEN <<TRUE, 0>>
            ELSE IF testIncreaseIndentPattern(rules, validPreviousLine)
                THEN <<TRUE, 1>>
            ELSE IF testIndentNextLinePattern(rules, validPreviousLine)
                THEN <<TRUE, 1>>
            ELSE <<FALSE, 0>>
    IN  IF testDecreaseIndentPattern(rules, currentLine)
            THEN <<TRUE, first[2] - 1>>
            ELSE first

\* IndentationRule.estimateIndentAction: <<ruleMatched, nextIndentLevel>>
RuleState(rules, validPreviousLine, currentLine) ==
    LET first ==
            IF testUnIndentedLinePattern(rules, validPreviousLine)
                THEN <<FALSE, 0>>
            ELSE IF testIncreaseIndentPattern(rules, validPreviousLine)
                THEN <<TRUE, 1>>
            ELSE IF testIndentNextLinePattern(rules, validPreviousLine)
                THEN <<TRUE, 1>>
            ELSE <<FALSE, 0>>
    IN  IF testDecreaseIndentPattern(rules, currentLine)
            THEN <<TRUE, first[2] - 1>>
            ELSE first

RuleEstimateIndentAction(rules, validPreviousLine, currentLine) ==
    LET st == RuleState(rules, validPreviousLine, currentLine)
    IN  IF st[1]
            THEN IF st[2] = 0 THEN "None"
                 ELSE IF st[2] > 0 THEN "Indent"
                 ELSE "Outdent"
            ELSE "null"

----------------------------------------------------------------------------
(* Indent decision engine *)

\* the previous line the engine treats as absent (validPreviousLine == null)
NullLine == <<"null">>

\* "2 special indent-outdent"
BracketIndentOutdent(validPreviousLine, stripped, cfg) ==
    /\ Len(validPreviousLine) > 0
    /\ Len(stripped) > 0
    /\ cfg.brackets.has
    /\ \E k \in 1..Len(cfg.brackets.list) :
          /\ OpenRegExpTest(cfg.brackets.list[k][1], validPreviousLine)
          /\ CloseRegExpTest(cfg.brackets.list[k][2], stripped)

\* "3 open bracket based logic"
BracketIndent(validPreviousLine, cfg) ==
    /\ Len(validPreviousLine) > 0
    /\ cfg.brackets.has
    /\ \E k \in 1..Len(cfg.brackets.list) :
          OpenRegExpTest(cfg.brackets.list[k][1], validPreviousLine)

\* "4 close bracket based logic"
BracketOutdent(stripped, cfg) ==
    /\ Len(stripped) > 0
    /\ cfg.brackets.has
    /\ \E k \in 1..Len(cfg.brackets.list) :
          CloseRegExpTest(cfg.brackets.list[k][2], stripped)

\* the close bracket logic placed before the open bracket logic
BracketAction_CloseFirst(validPreviousLine, stripped, cfg) ==
    IF BracketIndentOutdent(validPreviousLine, stripped, cfg) THEN "IndentOutdent"
    ELSE IF BracketOutdent(stripped, cfg) THEN "Outdent"
    ELSE IF BracketIndent(validPreviousLine, cfg) THEN "Indent"
    ELSE "None"

BracketAction(validPreviousLine, stripped, cfg) ==
    IF BracketIndentOutdent(validPreviousLine, stripped, cfg) THEN "IndentOutdent"
    ELSE IF BracketIndent(validPreviousLine, cfg) THEN "Indent"
    ELSE IF BracketOutdent(stripped, cfg) THEN "Outdent"
    ELSE "None"

\* the result of the indentation rules as the engine uses it
EngineRuleResult(validPreviousLine, currentLine, cfg) ==
    IF cfg.indentationRules.has
        THEN RuleEstimateIndentAction(cfg.indentationRules, validPreviousLine, currentLine)
        ELSE "null"

\* the bracket logic consulted before the indentation rules
estimateIndentAction_BracketsFirst(validPreviousLine, currentLine, cfg) ==
    IF validPreviousLine = NullLine THEN "None"
    ELSE LET b == BracketAction(validPreviousLine, StripLeading(currentLine), cfg)
             r == EngineRuleResult(validPreviousLine, currentLine, cfg)
         IN  IF b # "None" THEN b
             ELSE IF r # "null" THEN r
             ELSE "None"

estimateIndentAction(validPreviousLine, currentLine, cfg) ==
    IF validPreviousLine = NullLine THEN "None"
    ELSE LET r == EngineRuleResult(validPreviousLine, currentLine, cfg)
         IN  IF r # "null" THEN r
             ELSE BracketAction(validPreviousLine, StripLeading(currentLine), cfg)

----------------------------------------------------------------------------
(* Indent arithmetic.  A level is held as level * tabSize. *)

getIndent(line) == SubSeq(line, 1, IndentLen(line))

\* countIndent(indentLine, tabSize) * tabSize
countIndent(indentLine, ts) == Count(indentLine, "\t") * ts + Count(indentLine, " ")

\* what `new Array(n)` does for a number n that is no array length
RangeError == <<"RangeError">>

\* convertIndentLevelToString(level, tabSize), level = levelU / ts
convertIndentLevelToString(levelU, ts, hard) ==
    IF hard
        THEN IF levelU % ts = 0 THEN Repeat("\t", levelU \div ts) ELSE RangeError
        ELSE Repeat(" ", levelU)

\* the indent text always made from the level, never taken from the previous line
indentLine_Regenerate(line, levelU, previousIndent, previousLevelU, ts, hard) ==
    LET additionalSpaces == convertIndentLevelToString(levelU, ts, hard)
    IN  IF additionalSpaces = RangeError THEN RangeError
        ELSE additionalSpaces \o StripLeading(line)

indentLine(line, levelU, previousIndent, previousLevelU, ts, hard) ==
    IF previousLevelU = levelU
        THEN previousIndent \o StripLeading(line)
        ELSE LET additionalSpaces == convertIndentLevelToString(levelU, ts, hard)
             IN  IF additionalSpaces = RangeError THEN RangeError
                 ELSE additionalSpaces \o StripLeading(line)

\* idealIndent of reindentCurrentLine, times tabSize
IdealIndent(indentAction, previousLevelU, ts) ==
    LET moved == IF indentAction \in {"Indent", "IndentOutdent"} THEN previousLevelU + ts
                 ELSE IF indentAction = "Outdent" THEN previousLevelU - ts
                 ELSE previousLevelU
    IN  IF moved < 0 THEN 0 ELSE moved

\* the CRLF trim of the replacement text
TrimForEol(indented, currentLine, native, e) ==
    IF e = 2 /\ 1 < Len(indented) /\ Len(currentLine) # native
        THEN SubSeq(indented, 1, Len(indented) - 1)
        ELSE indented

\* the column the cursor is moved to, times tabSize (its column when it stays)
CursorTarget(idealU, beforeU, native, charU, ts, hard) ==
    IF charU < native * ts
        THEN IF hard THEN idealU ELSE idealU * ts
    ELSE IF idealU # beforeU
        THEN charU + (idealU - beforeU) * ts
    ELSE charU

\* reindentCurrentLine: what it computes and asks of the editor
Reindent(indentAction, validPreviousLine, currentLine, charU, ts, hard, e) ==
    LET previousIndent == getIndent(validPreviousLine)
        previousLevelU == countIndent(previousIndent, ts)
        beforeU == countIndent(getIndent(currentLine), ts)
        native  == Len(getIndent(currentLine))
        idealU  == IdealIndent(indentAction, previousLevelU, ts)
        needEdit == idealU # beforeU
        indented == IF needEdit
                      THEN indentLine(currentLine, idealU, previousIndent,
                                      previousLevelU, ts, hard)
                      ELSE <<>>
        threw == needEdit /\ indented = RangeError
        target == CursorTarget(idealU, beforeU, native, charU, ts, hard)
        moves == ~threw /\ (charU < native * ts \/ idealU # beforeU)
    IN  [ idealU |-> idealU, beforeU |-> beforeU, native |-> native,
          previousIndent |-> previousIndent, previousLevelU |-> previousLevelU,
          threw |-> threw,
          edited |-> needEdit /\ ~threw,
          text |-> IF needEdit /\ ~threw
                     THEN TrimForEol(indented, currentLine, native, e) ELSE <<>>,
          \* new vscode.Position(line, c) throws for c < 0
          cursorSet |-> moves /\ target >= 0,
          positionThrew |-> moves /\ target < 0,
          target |-> target ]

----------------------------------------------------------------------------
(* Language configurations *)

NoEditor == "NoEditor"

Langs == {"c", "html", "python", "plaintext"}

NoRules ==
    [ has |-> FALSE, unIndentedLinePattern |-> NoPattern,
      increaseIndentPattern |-> NoPattern, decreaseIndentPattern |-> NoPattern,
      indentNextLinePattern |-> NoPattern ]

NoBrackets == [ has |-> FALSE, list |-> <<>> ]

Brackets(l) == [ has |-> TRUE, list |-> l ]

Curly == << <<"{">>, <<"}">> >>

Round == << <<"(">>, <<")">> >>

NoConfiguration == [ indentationRules |-> NoRules, brackets |-> NoBrackets ]

ADDITIONAL_CONFIGURATION_FOR_LANGUAGE ==
    [ l \in {"python", "html"} |->
        IF l = "python"
            THEN [ indentationRules |->
                       [ NoRules EXCEPT !.has = TRUE,
                                        !.increaseIndentPattern = <<"pyInc", "">> ],
                   brackets |-> NoBrackets ]
            ELSE [ indentationRules |->
                       [ NoRules EXCEPT !.has = TRUE,
                                        !.increaseIndentPattern = <<"htmlInc", "">>,
                                        !.decreaseIndentPattern = <<"starts", "}">> ],
                   brackets |-> NoBrackets ] ]

\* the language-configuration.json the host finds for a language id
\* ("plaintext" is a language without one)
InstalledLangs == {"c", "html", "python"}

InstalledConfiguration(l) ==
    IF l = "c" THEN [ indentationRules |-> NoRules, brackets |-> Brackets(<<Curly, Round>>) ]
    ELSE IF l = "html" THEN [ indentationRules |-> NoRules, brackets |-> Brackets(<<Curly>>) ]
    ELSE [ indentationRules |->
               [ NoRules EXCEPT !.has = TRUE,
                                !.decreaseIndentPattern = <<"starts", "}">> ],
           brackets |-> Brackets(<<Round, Curly>>) ]

\* Object.assign({}, a, b) on the four pattern fields
AssignRules(a, b) ==
    [ has |-> TRUE,
      unIndentedLinePattern |->
          IF b.has /\ b.unIndentedLinePattern # NoPattern
              THEN b.unIndentedLinePattern ELSE a.unIndentedLinePattern,
      increaseIndentPattern |->
          IF b.has /\ b.increaseIndentPattern # NoPattern
              THEN b.increaseIndentPattern ELSE a.increaseIndentPattern,
      decreaseIndentPattern |->
          IF b.has /\ b.decreaseIndentPattern # NoPattern
              THEN b.decreaseIndentPattern ELSE a.decreaseIndentPattern,
      indentNextLinePattern |->
          IF b.has /\ b.indentNextLinePattern # NoPattern
              THEN b.indentNextLinePattern ELSE a.indentNextLinePattern ]

mergeLanguageConfiguration(a, b) ==
    [ indentationRules |->
          IF a.indentationRules.has
              THEN AssignRules(a.indentationRules, b.indentationRules)
              ELSE b.indentationRules,
      brackets |->
          IF a.brackets.has
              THEN Brackets(a.brackets.list \o b.brackets.list)
              ELSE b.brackets ]

AdditionalFor(l) ==
    IF l \in DOMAIN ADDITIONAL_CONFIGURATION_FOR_LANGUAGE
        THEN ADDITIONAL_CONFIGURATION_FOR_LANGUAGE[l]
        ELSE NoConfiguration

\* a resolved configuration, or none (null)
Null == [ has |-> FALSE, cfg |-> NoConfiguration ]

Some(c) == [ has |-> TRUE, cfg |-> c ]

\* the configuration of language l: its installed file merged with the built-in
\* additions for l
ResolveLanguage(l) ==
    IF l \in InstalledLangs
        THEN Some(mergeLanguageConfiguration(InstalledConfiguration(l), AdditionalFor(l)))
        ELSE Null

\* getLanguageConfiguration(id) while the active editor shows language `active`
getLanguageConfiguration(id, active) ==
    IF active = NoEditor THEN Null
    ELSE ResolveLanguage(active)

----------------------------------------------------------------------------
(* The editor *)

\* getValidPreviousLine(allLinesArray, currentLine), currentLine 0-based
getValidPreviousLine(allLinesArray, currentLine) ==
    LET valid == {k \in 1..currentLine :
                     Len(allLinesArray[k]) > 0 /\ ~AllWhiteSpace(allLinesArray[k])}
    IN  IF valid = {} THEN <<>>
        ELSE allLinesArray[CHOOSE k \in valid : \A j \in valid : j <= k]

\* getPreviousAndCurrentLine(editor)
getPreviousAndCurrentLine(allLinesArray, line, isEmpty) ==
    IF ~isEmpty THEN << <<>>, <<>> >>
    ELSE IF line = 0 THEN << <<>>, allLinesArray[line + 1] >>
    ELSE << getValidPreviousLine(allLinesArray, line), allLinesArray[line + 1] >>

convertIndentActionToString(action) ==
    CASE action = "Indent" -> "Indent"
      [] action = "IndentOutdent" -> "IndentOutdent"
      [] action = "Outdent" -> "Outdent"
      [] action = "None" -> "Keep"
      [] OTHER -> ""

\* the text of line k (1-based) as the document holds it: without the "\r" that
\* split('\n') leaves on a terminated line of a CRLF document
DocumentLine(allLinesArray, e, k) ==
    LET l == allLinesArray[k]
    IN  IF e = 2 /\ k < Len(allLinesArray) /\ Len(l) > 0 /\ l[Len(l)] = "\r"
            THEN SubSeq(l, 1, Len(l) - 1) ELSE l

\* edit.replace(new Range((line, 0), (line, endChar)), text): the range is
\* clipped to the document line
ApplyReplace(allLinesArray, e, line, endChar, text) ==
    LET k == line + 1
        doc == DocumentLine(allLinesArray, e, k)
        end == IF endChar < Len(doc) THEN endChar ELSE Len(doc)
        terminator == SubSeq(allLinesArray[k], Len(doc) + 1, Len(allLinesArray[k]))
    IN  [allLinesArray EXCEPT ![k] = text \o Drop(doc, end + 1) \o terminator]

NoReindent == Reindent("None", <<>>, <<>>, 0, 1, FALSE, 1)

Idle ==
    [ cmd |-> "none", lines |-> <<>>, line |-> 0, charU |-> 0, isEmpty |-> TRUE,
      previous |-> <<>>, current |-> <<>>, action |-> "None", r |-> NoReindent ]

IdleEngine ==
    [ done |-> FALSE, previous |-> <<>>, current |-> <<>>,
      cfg |-> NoConfiguration, rule |-> "null", action |-> "None" ]

----------------------------------------------------------------------------
(* Operations *)

\* activate(context)
Activate ==
    /\ cache' = [l \in Langs |-> Null]
    /\ UNCHANGED <<lines, eol, curLine, curChar, selEmpty, langId, tabSize,
                   hardTab, message, last, eng>>

\* the onDidOpenTextDocument listener, for a document of language d
OnDidOpenTextDocument(d) ==
    LET languageConfig == getLanguageConfiguration(d, langId)
    IN  /\ cache' = IF languageConfig.has
                      THEN [cache EXCEPT ![d] = languageConfig]
                      ELSE cache
        /\ UNCHANGED <<lines, eol, curLine, curChar, selEmpty, langId, tabSize,
                       hardTab, message, last, eng>>

\* runReindentCurrentLineCommand(debug)
RunCommand(debug) ==
    IF langId = NoEditor
    THEN /\ message' = "No editor"
         /\ last' = [Idle EXCEPT !.cmd = "noeditor"]
         /\ UNCHANGED <<lines, eol, curLine, curChar, selEmpty, langId, tabSize,
                        hardTab, cache, eng>>
    ELSE
    LET languageConfig == getLanguageConfiguration(langId, langId)
        cached == cache[langId].has
    IN  IF ~cached /\ ~languageConfig.has
        THEN /\ message' = "no language config"
             /\ last' = [Idle EXCEPT !.cmd = "noconfig"]
             /\ UNCHANGED <<lines, eol, curLine, curChar, selEmpty, langId,
                            tabSize, hardTab, cache, eng>>
        ELSE
        LET cache1 == IF cached THEN cache
                      ELSE [cache EXCEPT ![langId] = languageConfig]
            langConfig == cache1[langId].cfg
            pc == getPreviousAndCurrentLine(lines, curLine, selEmpty)
            indent == estimateIndentAction(pc[1], pc[2], langConfig)
            r == Reindent(indent, pc[1], pc[2], curChar, tabSize, hardTab, eol)
            seen == [ cmd |-> IF debug THEN "debug" ELSE "reindent",
                      lines |-> lines, line |-> curLine, charU |-> curChar,
                      isEmpty |-> selEmpty, previous |-> pc[1], current |-> pc[2],
                      action |-> indent, r |-> IF debug THEN NoReindent ELSE r ]
        IN  /\ cache' = cache1
            /\ last' = seen
            /\ IF debug
               THEN /\ message' = convertIndentActionToString(indent)
                    /\ UNCHANGED <<lines, curChar, selEmpty>>
               ELSE /\ message' = message
                    /\ lines' = IF r.edited
                                  THEN ApplyReplace(lines, eol, curLine, Len(pc[2]), r.text)
                                  ELSE lines
                    /\ curChar' = IF r.cursorSet THEN r.target ELSE curChar
                    /\ selEmpty' = IF r.cursorSet THEN TRUE ELSE selEmpty
            /\ UNCHANGED <<eol, curLine, langId, tabSize, hardTab, eng>>

\* the command emacs-tab.reindentCurrentLine
ReindentCurrentLineCommand ==
    /\ RunCommand(FALSE)
    /\ last'.cmd \in {"reindent", "noeditor", "noconfig"}

\* the command emacs-tab.debugEstimateIndentLevel
DebugEstimateIndentLevel ==
    /\ RunCommand(TRUE)
    /\ last'.cmd \in {"debug", "noeditor", "noconfig"}

\* the host makes another editor the active one, or none
ChangeActiveEditor(l, buf) ==
    /\ langId' = l
    /\ lines' = buf
    /\ curLine' = Len(buf) - 1
    /\ curChar' = 0
    /\ selEmpty' = TRUE
    /\ UNCHANGED <<eol, tabSize, hardTab, cache, message, last, eng>>

\* one call of estimateIndentAction on the inputs held in eng
Estimate ==
    /\ ~eng.done
    /\ eng' = [eng EXCEPT
                 !.done = TRUE,
                 !.rule = EngineRuleResult(eng.previous, eng.current, eng.cfg),
                 !.action = estimateIndentAction(eng.previous, eng.current, eng.cfg)]
    /\ UNCHANGED <<lines, eol, curLine, curChar, selEmpty, langId, tabSize,
                   hardTab, cache, message, last>>

----------------------------------------------------------------------------
(* Bounded inputs *)

MaxIndentLen == 2

TabSizes == {2, 4}

RECURSIVE IndentsOfLen(_)
IndentsOfLen(n) ==
    IF n = 0 THEN {<<>>}
    ELSE {<<c>> \o w : c \in {" ", "\t"}, w \in IndentsOfLen(n - 1)}

Indents == UNION {IndentsOfLen(n) : n \in 0..MaxIndentLen}

Contents == {<<>>, <<"a">>, <<"{">>, <<"}">>}

BufferLines == {i \o c : i \in Indents, c \in Contents}

\* in a two-line buffer: a first line that is blank, plain or opens a bracket,
\* a second line that is blank, plain or closes one
FirstLines == {i \o c : i \in Indents, c \in Contents \ {<<"}">>}}

SecondLines == {i \o c : i \in Indents, c \in Contents \ {<<"{">>}}

BlankLines == {<<>>, <<" ">>}

\* a buffer and the line of the cursor: a one-line buffer, the second line of a
\* two-line buffer, either end of a buffer with a blank line in the middle
Scenes ==
    {<< <<a>>, 0 >> : a \in BufferLines}
    \cup {<< <<a, b>>, 1 >> : a \in FirstLines, b \in SecondLines}
    \cup {<< <<a, w, b>>, n >> : a \in {<<"{">>, <<" ", "a">>}, w \in BlankLines,
                                 b \in {<<"a">>, <<"\t", "}">>}, n \in {0, 2}}

\* split('\n') of the text of a document with the lines buf and line ending e
SplitLines(buf, e) ==
    [k \in 1..Len(buf) |-> IF e = 2 /\ k < Len(buf) THEN buf[k] \o <<"\r">> ELSE buf[k]]

EditorLangs == {"c", "html"}

CacheScenes == { << << <<"a", "{">>, <<" ", "a">> >>, 1 >>,
                 << << <<"i", "f", ":">>, <<"a">> >>, 1 >> }

EnginePatterns ==
    [ unIndentedLinePattern : {NoPattern, <<"starts", "a">>, <<"bad", "">>},
      increaseIndentPattern : {NoPattern, <<"ends", "{">>, <<"has", "a">>},
      decreaseIndentPattern : {NoPattern, <<"starts", "}">>},
      indentNextLinePattern : {NoPattern, <<"ends", "a">>},
      has : {TRUE} ]

WordPair == << <<"b">>, <<"e">> >>

EngineBrackets ==
    {NoBrackets, Brackets(<<>>), Brackets(<<Curly>>), Brackets(<<Round, Curly>>),
     Brackets(<<WordPair>>)}

EngineConfigs ==
    [ indentationRules : EnginePatterns \cup {NoRules}, brackets : EngineBrackets ]

EngineLines ==
    {i \o c : i \in {<<>>, <<" ">>},
              c \in {<<>>, <<"a">>, <<"{">>, <<"}">>, <<"a", "{">>, <<"{", " ">>,
                     <<"(">>, <<")">>, <<"b">>, <<"a", "b">>, <<"e">>, <<"e", "a">>}}

----------------------------------------------------------------------------
(* Specifications *)

InitEditor(scenes, langs) ==
    /\ eol \in {1, 2}
    /\ \E sc \in scenes : lines = SplitLines(sc[1], eol) /\ curLine = sc[2]
    /\ tabSize \in TabSizes
    /\ \E col \in 0..Len(DocumentLine(lines, eol, curLine + 1)) : curChar = col * tabSize
    \* a range selection is drawn for every scene but the two-line ones
    /\ selEmpty \in BOOLEAN
    /\ (selEmpty \/ Len(lines) # 2)
    /\ hardTab \in BOOLEAN
    /\ langId \in langs
    /\ cache = [l \in Langs |-> Null]
    /\ message = ""
    /\ last = Idle

\* the command on any buffer
Init == InitEditor(Scenes, EditorLangs) /\ eng = IdleEngine

Next == ReindentCurrentLineCommand \/ DebugEstimateIndentLevel

Spec == Init /\ [][Next]_vars

\* the cache under document-open notifications and editor changes
InitCache ==
    /\ InitEditor(CacheScenes, Langs \cup {NoEditor})
    /\ eol = 1 /\ tabSize = 4 /\ ~hardTab /\ selEmpty /\ curChar = 0
    /\ eng = IdleEngine

NextCache ==
    \/ Activate
    \/ \E d \in Langs : OnDidOpenTextDocument(d)
    \/ \E l \in Langs \cup {NoEditor}, sc \in CacheScenes : ChangeActiveEditor(l, sc[1])
    \/ ReindentCurrentLineCommand
    \/ DebugEstimateIndentLevel

SpecCache == InitCache /\ [][NextCache]_vars

\* the decision engine as a function of its arguments
InitEngine ==
    /\ lines = << <<>> >> /\ eol = 1 /\ curLine = 0 /\ curChar = 0
    /\ selEmpty = TRUE /\ langId = NoEditor /\ tabSize = 4 /\ hardTab = FALSE
    /\ cache = [l \in Langs |-> Null] /\ message = "" /\ last = Idle
    /\ \E p \in EngineLines, c \in EngineLines, g \in EngineConfigs :
          eng = [IdleEngine EXCEPT !.previous = p, !.current = c, !.cfg = g]

NextEngine == Estimate

SpecEngine == InitEngine /\ [][NextEngine]_vars

----------------------------------------------------------------------------
(* The decision engine: C1, C2, C3 (under SpecEngine) *)

EngRules == eng.cfg.indentationRules

\* C1: when config.indentationRules is present and IndentationRule.estimateIndentAction
\* returns a non-null action, the engine returns exactly that action, whatever the
\* bracket pairs say; in particular an increaseIndentPattern matching the previous
\* line (no unIndentedLinePattern match on it, no decreaseIndentPattern match on the
\* current line) yields Indent.
C1_RuleOverridesBrackets ==
    (eng.done /\ EngRules.has) =>
        /\ RuleEstimateIndentAction(EngRules, eng.previous, eng.current) # "null"
              => eng.action = RuleEstimateIndentAction(EngRules, eng.previous, eng.current)
        /\ ( /\ TestPattern(EngRules.increaseIndentPattern, eng.previous)
             /\ ~TestPattern(EngRules.unIndentedLinePattern, eng.previous)
             /\ ~TestPattern(EngRules.decreaseIndentPattern, eng.current) )
              => eng.action = "Indent"

\* the rule says Indent where the brackets alone would say IndentOutdent
C1_Witness ==
    /\ eng.done /\ EngRules.has
    /\ eng.rule = "Indent" /\ eng.action = "Indent"
    /\ BracketIndentOutdent(eng.previous, StripLeading(eng.current), eng.cfg)

C2_Pairs == IF eng.cfg.brackets.has THEN eng.cfg.brackets.list ELSE <<>>

C2_Stripped == StripLeading(eng.current)

C2_Expected ==
    IF /\ eng.previous # <<>> /\ C2_Stripped # <<>>
       /\ \E k \in 1..Len(C2_Pairs) :
             OpenRegExpTest(C2_Pairs[k][1], eng.previous)
                 /\ CloseRegExpTest(C2_Pairs[k][2], C2_Stripped)
        THEN "IndentOutdent"
    ELSE IF /\ eng.previous # <<>>
            /\ \E k \in 1..Len(C2_Pairs) : OpenRegExpTest(C2_Pairs[k][1], eng.previous)
        THEN "Indent"
    ELSE IF /\ C2_Stripped # <<>>
            /\ \E k \in 1..Len(C2_Pairs) : CloseRegExpTest(C2_Pairs[k][2], C2_Stripped)
        THEN "Outdent"
    ELSE "None"

\* C2: when no indentation-rule pattern fires, the result is IndentOutdent if both
\* lines are non-empty and one pair opens on the previous line and closes on the
\* stripped current line, otherwise Indent if the previous line is non-empty and a
\* pair opens on it, otherwise Outdent if the stripped current line is non-empty
\* and a pair closes on it, otherwise None; without brackets and without
\* indentationRules it is None for every input.
C2_BracketCascade ==
    eng.done =>
        /\ eng.rule = "null" => eng.action = C2_Expected
        /\ (~EngRules.has /\ C2_Pairs = <<>>) => eng.action = "None"

\* the second pair of the list decides IndentOutdent, no rule having fired
C2_Witness ==
    /\ eng.done /\ eng.rule = "null" /\ EngRules.has
    /\ eng.action = "IndentOutdent"
    /\ Len(C2_Pairs) = 2
    /\ ~OpenRegExpTest(C2_Pairs[1][1], eng.previous)

\* C3 as stated: a match of unIndentedLinePattern on the previous line counts as a
\* fired rule with delta 0, so the result is non-null: None when
\* decreaseIndentPattern does not match the current line, Outdent when it does.
C3_UnIndentedFires ==
    (eng.done /\ EngRules.has /\ TestPattern(EngRules.unIndentedLinePattern, eng.previous))
        => eng.rule = IF TestPattern(EngRules.decreaseIndentPattern, eng.current)
                        THEN "Outdent" ELSE "None"

\* C3 amended: a match of unIndentedLinePattern on the previous line keeps the
\* increase and indent-next-line patterns from being applied but does not count as
\* a fired rule: the result is Outdent when decreaseIndentPattern matches the
\* current line and null when it does not; null is returned exactly when
\* decreaseIndentPattern did not match and no increase or indent-next-line pattern
\* was applied.
C3_UnIndentedSuppresses ==
    (eng.done /\ EngRules.has) =>
        LET un  == TestPattern(EngRules.unIndentedLinePattern, eng.previous)
            inc == TestPattern(EngRules.increaseIndentPattern, eng.previous)
            nxt == TestPattern(EngRules.indentNextLinePattern, eng.previous)
            dec == TestPattern(EngRules.decreaseIndentPattern, eng.current)
        IN  /\ un => eng.rule = IF dec THEN "Outdent" ELSE "null"
            /\ eng.rule = "null" <=> (~dec /\ (un \/ (~inc /\ ~nxt)))

\* unIndentedLinePattern and increaseIndentPattern both match the previous line
C3_Witness ==
    /\ eng.done /\ EngRules.has
    /\ TestPattern(EngRules.unIndentedLinePattern, eng.previous)
    /\ TestPattern(EngRules.increaseIndentPattern, eng.previous)
    /\ eng.rule = "null"

----------------------------------------------------------------------------
(* The command on a buffer: C4 .. C9 (under Spec) *)

Ran == last.cmd = "reindent"

\* the cursor line as the document holds it now
CurrentDocumentLine == DocumentLine(lines, eol, curLine + 1)

\* the lines above the cursor line when the command started are all blank
NoPreviousLine ==
    \A k \in 1..last.line : AllWhiteSpace(last.lines[k])

\* C4: when no previous non-blank line exists for the cursor line (first line of
\* the buffer, or only blank lines above), the action the command computes is None,
\* whatever the language configuration and the current line.
C4_NoPreviousLineGivesNone ==
    (last.cmd \in {"reindent", "debug"} /\ NoPreviousLine) => last.action = "None"

\* C5: the command replaces no text and leaves the cursor and the selection alone
\* whenever the cursor is on the first line or the selection is a range.
C5_FirstLineOrRangeDoesNothing ==
    (Ran /\ (last.line = 0 \/ ~last.isEmpty)) =>
        /\ lines = last.lines
        /\ curChar = last.charU
        /\ selEmpty = last.isEmpty

\* C6: a cursor that was inside the current line's leading whitespace is, after
\* the command, at the first non-blank column of the line: its column equals the
\* length of the line's leading whitespace.
C6_CursorSnap ==
    (Ran /\ last.isEmpty /\ last.charU < Len(getIndent(last.current)) * tabSize) =>
        curChar = Len(getIndent(CurrentDocumentLine)) * tabSize

\* C7: a cursor at or past the end of the leading whitespace keeps its offset into
\* the line's content when the command changes the indent level.
C7_CursorKeepsOffset ==
    ( /\ Ran /\ last.isEmpty
      /\ last.charU >= Len(getIndent(last.current)) * tabSize
      /\ last.r.idealU # last.r.beforeU ) =>
        curChar - Len(getIndent(CurrentDocumentLine)) * tabSize
            = last.charU - Len(getIndent(last.current)) * tabSize

\* C8 as stated: whenever the target level equals the previous valid line's level,
\* the current line's leading whitespace after the command is the previous line's
\* leading whitespace, character for character.
C8_SameLevelSameIndentText ==
    (Ran /\ last.isEmpty /\ last.r.idealU = countIndent(getIndent(last.previous), tabSize))
        => getIndent(CurrentDocumentLine) = getIndent(last.previous)

\* C8 amended: whenever the target level equals the previous valid line's level
\* and differs from the current line's level, so that the line is replaced, the
\* current line's leading whitespace after the command is the previous line's
\* leading whitespace, character for character.
C8_ReplacedLineCopiesIndentText ==
    ( /\ Ran /\ last.isEmpty
      /\ last.r.idealU = countIndent(getIndent(last.previous), tabSize)
      /\ last.r.idealU # countIndent(getIndent(last.current), tabSize) )
        => /\ lines # last.lines
           /\ getIndent(CurrentDocumentLine) = getIndent(last.previous)

\* the copied indent mixes a tab and a space and is no text the tab policy makes
C8_Witness ==
    /\ Ran /\ last.r.edited
    /\ last.r.idealU = last.r.previousLevelU
    /\ getIndent(last.previous) = <<"\t", " ">>
    /\ getIndent(CurrentDocumentLine) = <<"\t", " ">>
    /\ getIndent(last.current) # <<"\t", " ">>

C9_Delta ==
    IF last.action \in {"Indent", "IndentOutdent"} THEN tabSize
    ELSE IF last.action = "Outdent" THEN 0 - tabSize
    ELSE 0

C9_Ideal ==
    LET l == countIndent(getIndent(last.previous), tabSize) + C9_Delta
    IN  IF l < 0 THEN 0 ELSE l

\* C9: after one invocation the current line's indent level is the ideal level
\* max(0, previousLevel + d), under either tab policy and for fractional levels,
\* so that a repeated invocation replaces no text.
C9_LevelIsIdealAfterReindent ==
    (Ran /\ last.isEmpty) =>
        countIndent(getIndent(lines[curLine + 1]), tabSize) = C9_Ideal

----------------------------------------------------------------------------
(* The cache: C10 (under SpecCache) *)

\* C10: every entry of the cache holds the configuration resolved for its own
\* language id, after any sequence of activations, document-open notifications
\* and commands; activate leaves the cache empty.
C10_CacheEntryIsOwnLanguage ==
    \A id \in Langs : cache[id].has => cache[id] = ResolveLanguage(id)

----------------------------------------------------------------------------
(* The replaced line and the cursor: C11, C12 (under Spec) *)

\* the cursor line as the document held it when the command started
PreviousDocumentLine == DocumentLine(last.lines, eol, last.line + 1)

\* C11: whenever the command replaces the current line, only its leading
\* whitespace changes: the text after the leading whitespace is the original
\* line's text after its leading whitespace, in LF and CRLF documents, the
\* unterminated last line of a CRLF document included.
C11_ContentPreserved ==
    (Ran /\ last.r.edited) =>
        StripLeading(CurrentDocumentLine) = StripLeading(PreviousDocumentLine)

\* C12: every cursor position the command sets has a column that is at least 0
\* and at most the length of the current line after the command.
C12_CursorInBounds ==
    (Ran /\ last.r.cursorSet) =>
        /\ curChar >= 0
        /\ curChar <= Len(CurrentDocumentLine) * tabSize

====
